---- MODULE Spec2Model ----
(***************************************************************************)
(* Reminder lifecycle, delayed task queue, recovery sweeper, executor and  *)
(* conversation flow state of the WhatsApp reminder agent.                 *)
(*                                                                         *)
(* Time is counted in units of half an hour: OneHour == 2.  The retry      *)
(* backoff of the queue (2 s, 4 s) is below that resolution, so a retried  *)
(* job is due again at the instant of its failure.                         *)
(***************************************************************************)
EXTENDS Integers, Sequences, FiniteSets, TLC

\* ----------------------------------------------------------------- bounds
MaxTime == 3
CounterCap == 2
MaxLog == 6
MaxLimit == 3
MaxInbound == 3
MaxPayload == 2
MaxTimers == 2
MaxStarts == 3

\* ------------------------------------------------------ program constants
OneHour == 2
Attempts == 3
Concurrency == 5

Rids == {"r1", "r2"}
\* the reminders Spec creates and follows through their life
Tracked == {"r1"}
Slots == {1, 2}

VARIABLES
    now,        \* Date.now()
    reminders,  \* the reminders table: one row per id, status "none" = no row
    jobs,       \* the BullMQ queue 'reminders': jobs by (jobId, instance)
    creating,   \* handleCreateReminder between createReminder and scheduleReminder
    sweep,      \* the running checkAndScheduleReminders call, if any
    cancelOp,   \* the running cancel handler, if any
    hist,       \* per reminder: the outbound conversation messages that relate
                \* to it (outbound), and observation counters
    agentState, \* the agent_state row of the user, NoState = no row
    handler,    \* the concurrent message handlers of the user, inside a service call
    written,    \* keys stored by completed updateFlowData calls of the current flow
    scheduler,  \* the ReminderScheduler: its interval timer and the sweeps it began
    user,       \* the users row of the user
    routed,     \* AgentRouter.route: the call in progress or the last one made
    conv,       \* the conversations of the user (log, oldest first) and the
                \* last ConversationService read made (ctx)
    webhook     \* the webhook request in progress: the payload left, the
                \* message being handled and what its handling did

flowVars == <<agentState, handler, written>>

vars == <<now, reminders, jobs, creating, sweep, cancelOp, hist, flowVars, scheduler,
          user, routed, conv, webhook>>

Inc(n) == IF n < CounterCap THEN n + 1 ELSE CounterCap

Max(a, b) == IF a >= b THEN a ELSE b

\* ------------------------------------------------------ ReminderRepository
\* the user the model follows, "u1", and another one
Users == {"u1", "u2"}

\* userExists: whether the users row that userId names exists
NoRow == [status |-> "none", scheduledTime |-> 0, sentAt |-> FALSE,
          whatsappMsgId |-> 0, failureReason |-> FALSE, userExists |-> FALSE,
          deliveredAt |-> FALSE, userId |-> "none"]

create(t, userExists) ==
    [status |-> "pending", scheduledTime |-> t, sentAt |-> FALSE,
     whatsappMsgId |-> 0, failureReason |-> FALSE, userExists |-> userExists,
     deliveredAt |-> FALSE, userId |-> "u1"]

\* prisma.reminder.update throws when no row has the id
RowExists(r) == reminders[r].status # "none"

cancel(row) == [row EXCEPT !.status = "cancelled"]

\* markAsSent that does not store the message id
markAsSentNoMsgId(row, msgId) == [row EXCEPT !.status = "sent", !.sentAt = TRUE]

markAsSent(row, msgId) ==
    [row EXCEPT !.status = "sent", !.sentAt = TRUE, !.whatsappMsgId = msgId]

\* ReminderRepository.markAsDelivered: status delivered and deliveredAt
markAsDelivered(row) == [row EXCEPT !.status = "delivered", !.deliveredAt = TRUE]

\* markAsFailed putting the row back to pending for the retry
markAsFailedToPending(row) ==
    [row EXCEPT !.status = "pending", !.failureReason = TRUE]

\* markAsFailed writing the status without the failureReason
markAsFailedNoReason(row) == [row EXCEPT !.status = "failed"]

markAsFailed(row) ==
    [row EXCEPT !.status = "failed", !.failureReason = TRUE]

\* the query without its status filter
findDueReminders(beforeTime) ==
    {r \in Rids : reminders[r].status # "none"
                  /\ reminders[r].scheduledTime <= beforeTime}

\* the scheduledTime filter with gte in place of lte
findPendingRemindersGte(beforeTime) ==
    {r \in Rids : reminders[r].status = "pending"
                  /\ reminders[r].scheduledTime >= beforeTime}

\* findPendingReminders(beforeTime): ids of the pending rows due at or before it
findPendingReminders(beforeTime) ==
    {r \in Rids : reminders[r].status = "pending"
                  /\ reminders[r].scheduledTime <= beforeTime}

\* a query without the userId condition
getUpcomingRemindersOfAll(userId) ==
    {r \in Rids : reminders[r].status = "pending"
                  /\ reminders[r].scheduledTime > now}

\* getUpcomingReminders(userId): findByUserId(userId, 'pending'), then the
\* rows with scheduledTime > new Date()
getUpcomingReminders(userId) ==
    {r \in Rids : reminders[r].userId = userId
                  /\ reminders[r].status = "pending"
                  /\ reminders[r].scheduledTime > now}

\* orderBy scheduledTime asc (ties in id order), as a sequence of ids
RECURSIVE SortAsc(_)
SortAsc(S) ==
    IF S = {} THEN <<>>
    ELSE LET m == CHOOSE r \in S : \A q \in S :
                    \/ reminders[r].scheduledTime < reminders[q].scheduledTime
                    \/ /\ reminders[r].scheduledTime = reminders[q].scheduledTime
                       /\ (r = q \/ r = "r1")
         IN <<m>> \o SortAsc(S \ {m})

\* no cancel handler running; kind, userId and n are those of the last request
IdleCancel == [pc |-> "idle", target |-> "r1", kind |-> "none", userId |-> "none",
               n |-> 0]

\* -------------------------------------------------------- ReminderScheduler
\* no sweep running; batch and skipped are those of the last sweep: the
\* reminders its query returned, and those whose iteration scheduled nothing
IdleSweep == [pc |-> "idle", list |-> <<>>, batch |-> {}, skipped |-> {}]

\* checkAndScheduleReminders up to the loop: getPendingReminders(now + 1 hour),
\* ordered; an empty result returns at once
beginSweep ==
    IF findPendingReminders(now + OneHour) = {} THEN IdleSweep
    ELSE [pc |-> "loop", list |-> SortAsc(findPendingReminders(now + OneHour)),
          batch |-> findPendingReminders(now + OneHour), skipped |-> {}]

\* a loop that an iteration without a scheduled job leaves
abortLoop(sw, scheduled) ==
    IF scheduled
    THEN [sw EXCEPT !.pc = IF Tail(sw.list) = <<>> THEN "idle" ELSE "loop",
                    !.list = Tail(sw.list)]
    ELSE [sw EXCEPT !.pc = "idle", !.list = <<>>,
                    !.skipped = @ \cup {Head(sw.list)}]

\* the end of one iteration of the for loop: on to the next reminder, whether
\* the iteration scheduled a job, hit `continue` or was caught
continueLoop(sw, scheduled) ==
    [sw EXCEPT !.pc = IF Tail(sw.list) = <<>> THEN "idle" ELSE "loop",
               !.list = Tail(sw.list),
               !.skipped = IF scheduled THEN @ ELSE @ \cup {Head(sw.list)}]

\* phase: before start(), between start() and stop() (intervalId set), after
\* stop(); begun: calls of checkAndScheduleReminders; periods: interval
\* periods that elapsed since start()
\* timers: the interval timers set and not cleared; intervalId: whether the
\* field holds a timer
NewScheduler == [phase |-> "new", begun |-> 0, periods |-> 0, timers |-> 0,
                 intervalId |-> FALSE]

\* start() that only arms the interval timer
startNoSweep(sch) ==
    [sch EXCEPT !.phase = "running", !.timers = @ + 1, !.intervalId = TRUE]

\* start(): checkAndScheduleReminders(), then setInterval
start(sch) ==
    [sch EXCEPT !.phase = "running", !.begun = @ + 1, !.timers = @ + 1,
                !.intervalId = TRUE]

\* stop(): clearInterval(this.intervalId) when the field holds a timer
stop(sch) ==
    IF sch.intervalId
    THEN [sch EXCEPT !.phase = "stopped", !.timers = @ - 1, !.intervalId = FALSE]
    ELSE sch

\* ------------------------------------------------------------ ReminderQueue
NoJob == [state |-> "absent", due |-> 0, attemptsMade |-> 0, pc |-> "none", msgId |-> 0]

HasJob(q, r) == \E s \in Slots : q[r][s].state # "absent"

FreeSlot(q, r) == CHOOSE s \in Slots : q[r][s].state = "absent"
                                       /\ \A s2 \in Slots : q[r][s2].state = "absent" => s <= s2

NewJob(due) == [state |-> "delayed", due |-> due, attemptsMade |-> 0, pc |-> "none", msgId |-> 0]

\* queue.add without the jobId option: every call enqueues a job of its own
queueAddNoDedup(q, r, due) ==
    IF \E s \in Slots : q[r][s].state = "absent"
    THEN [q EXCEPT ![r][FreeSlot(q, r)] = NewJob(due)]
    ELSE q

\* queue.add(..., { delay, jobId: reminder.id }): ignored when the id exists
queueAdd(q, r, due) ==
    IF HasJob(q, r) THEN q ELSE [q EXCEPT ![r][1] = NewJob(due)]

\* scheduleReminder passing the delay as computed, negative when overdue
scheduleReminderNoClamp(q, r) ==
    queueAdd(q, r, now + (reminders[r].scheduledTime - now))

\* scheduleReminder: delay = max(0, scheduledTime - Date.now())
scheduleReminder(q, r) ==
    queueAdd(q, r, now + Max(0, reminders[r].scheduledTime - now))

ActiveJobs == {<<r, s>> \in Rids \X Slots : jobs[r][s].state = "active"}

\* --------------------------------------------------------- AgentStateService
Handlers == {"h1", "h2"}
Agents == {"reminder", "splitwise"}
Flows == {"onboarding", "split_expense"}
ExpenseKeys == {"amount", "participantCount"}
FlowKeys == ExpenseKeys \cup {"name"}
FlowVals == {1, 2}

\* flowData is a JSON object: key -> value, 0 = key not present
EmptyData == [k \in FlowKeys |-> 0]
DataSets == [FlowKeys -> FlowVals \cup {0}]
InitialDataSets == {EmptyData, [EmptyData EXCEPT !["amount"] = 1]}
PartialDataSets ==
    {d \in DataSets : /\ Cardinality({k \in FlowKeys : d[k] # 0}) = 1
                      /\ d["name"] = 0}
KeysOf(d) == {k \in FlowKeys : d[k] # 0}

NoState == [exists |-> FALSE, currentAgent |-> "none", activeFlow |-> "none",
            flowData |-> EmptyData]

\* prisma.agentState.upsert of setAgent
setAgent(state, agent) ==
    IF state.exists THEN [state EXCEPT !.currentAgent = agent]
    ELSE [exists |-> TRUE, currentAgent |-> agent, activeFlow |-> "none",
          flowData |-> EmptyData]

\* prisma.agentState.update of startFlow
startFlow(state, flowName, initialData) ==
    [state EXCEPT !.activeFlow = flowName, !.flowData = initialData]

\* the spread in the other order: { ...data, ...currentData }
mergedDataOldWins(currentData, data) ==
    [k \in FlowKeys |-> IF currentData[k] # 0 THEN currentData[k] ELSE data[k]]

\* { ...currentData, ...data }
mergedData(currentData, data) ==
    [k \in FlowKeys |-> IF data[k] # 0 THEN data[k] ELSE currentData[k]]

\* prisma.agentState.update of updateFlowData
updateFlowData(state, merged) == [state EXCEPT !.flowData = merged]

\* prisma.agentState.update of completeFlow
completeFlow(state) == [state EXCEPT !.activeFlow = "none", !.flowData = EmptyData]

\* an upsert whose update branch leaves flowData as stored
switchAgentKeepData(state, newAgent, flowName) ==
    [exists |-> TRUE, currentAgent |-> newAgent, activeFlow |-> flowName,
     flowData |-> state.flowData]

\* prisma.agentState.upsert of switchAgent; flowName "none" = argument omitted
switchAgent(state, newAgent, flowName) ==
    [exists |-> TRUE, currentAgent |-> newAgent, activeFlow |-> flowName,
     flowData |-> EmptyData]

\* -------------------------------------------------------- ConversationService
Min(a, b) == IF a <= b THEN a ELSE b

\* the rows handlers store, without the text: "none" is a null column
MessageKinds ==
    { [direction |-> "inbound", detectedIntent |-> "none",
       activeFlow |-> "none", relatedReminderId |-> "none"],
      [direction |-> "inbound", detectedIntent |-> "create_reminder",
       activeFlow |-> "create_reminder_flow", relatedReminderId |-> "none"],
      [direction |-> "inbound", detectedIntent |-> "list_reminders",
       activeFlow |-> "none", relatedReminderId |-> "none"],
      [direction |-> "outbound", detectedIntent |-> "create_reminder",
       activeFlow |-> "none", relatedReminderId |-> "r1"],
      [direction |-> "outbound", detectedIntent |-> "none",
       activeFlow |-> "none", relatedReminderId |-> "none"] }

\* ConversationRepository.create: the row, with the text of the message;
\* texts are numbered in the order of the timestamps
createConversation(kind, text) ==
    [direction |-> kind.direction, messageText |-> text,
     detectedIntent |-> kind.detectedIntent, activeFlow |-> kind.activeFlow,
     relatedReminderId |-> kind.relatedReminderId]

\* findMany ordered by timestamp asc
findOldestByUserId(log, limit) ==
    [i \in 1..Min(limit, Len(log)) |-> log[i]]

\* findRecentByUserId: orderBy timestamp desc, take limit
findRecentByUserId(log, limit) ==
    [i \in 1..Min(limit, Len(log)) |-> log[Len(log) + 1 - i]]

\* Array.prototype.find on a column: the value of the first row that has
\* it, undefined ("none") when no row has it
findColumn(rows, column) ==
    IF \E i \in 1..Len(rows) : rows[i][column] # "none"
    THEN rows[CHOOSE i \in 1..Len(rows) :
                  /\ rows[i][column] # "none"
                  /\ \A j \in 1..(i - 1) : rows[j][column] = "none"][column]
    ELSE "none"

\* Array.prototype.reverse
Reverse(rows) == [i \in 1..Len(rows) |-> rows[Len(rows) + 1 - i]]

\* getContext(userId, limit)
getContext(log, limit) ==
    LET recentMessages == findRecentByUserId(log, limit)
    IN [recentMessages |->
            [i \in 1..Len(recentMessages) |->
                [direction |-> Reverse(recentMessages)[i].direction,
                 messageText |-> Reverse(recentMessages)[i].messageText,
                 detectedIntent |-> Reverse(recentMessages)[i].detectedIntent]],
        lastIntent |-> findColumn(recentMessages, "detectedIntent"),
        lastActiveFlow |-> findColumn(recentMessages, "activeFlow"),
        lastReminderId |-> findColumn(recentMessages, "relatedReminderId")]

\* the limit getActiveReminderContext passes to getContext
ReminderContextLimit == 5

\* filter(inbound) then shift(): the text of the oldest inbound message
firstInboundText(messages) ==
    LET inbound == SelectSeq(messages, LAMBDA m : m.direction = "inbound")
    IN IF inbound = <<>> THEN 0 ELSE inbound[1].messageText

\* filter(inbound) then pop(): the text of the last inbound message of the
\* list, undefined (0) when there is none
lastInboundText(messages) ==
    LET inbound == SelectSeq(messages, LAMBDA m : m.direction = "inbound")
    IN IF inbound = <<>> THEN 0 ELSE inbound[Len(inbound)].messageText

\* getActiveReminderContext(userId)
getActiveReminderContext(log) ==
    LET context == getContext(log, ReminderContextLimit)
    IN [hasActiveReminderFlow |-> context.lastIntent = "create_reminder",
        partialReminderText |->
            IF context.lastIntent = "create_reminder"
            THEN lastInboundText(context.recentMessages) ELSE 0,
        lastIntent |-> context.lastIntent]

\* no message stored and no read made
NoConversation == [log |-> <<>>, ctx |-> [op |-> "none"]]

\* ---------------------------------------------------------------- AgentRouter
\* the agents MessageHandler registers with the router
Registered == {"onboarding", "conversation"}

Messages == {"hi", "remind me at 5"}

\* determineAgent: the first registered agent other than onboarding whose
\* canHandle is true (ConversationAgent: always), else 'conversation'
determineAgent(message) == "conversation"

\* no route call made yet
NotRouted == [pc |-> "idle", agent |-> "none", flow |-> "none",
              classified |-> FALSE, error |-> FALSE]

\* route with the two tests in the other order
routeFlowFirst(onboardingComplete, state, message) ==
    IF state.exists /\ state.activeFlow # "none"
    THEN [pc |-> "idle",
          agent |-> IF state.currentAgent \in Registered
                    THEN state.currentAgent ELSE "none",
          flow |-> state.activeFlow, classified |-> FALSE,
          error |-> state.currentAgent \notin Registered]
    ELSE IF ~onboardingComplete
    THEN [pc |-> "idle", agent |-> "onboarding", flow |-> state.activeFlow,
          classified |-> FALSE, error |-> FALSE]
    ELSE [pc |-> IF determineAgent(message) # state.currentAgent
                 THEN "setAgent" ELSE "idle",
          agent |-> determineAgent(message), flow |-> state.activeFlow,
          classified |-> TRUE, error |-> FALSE]

\* route that classifies the message of every user who completed setup
routeClassifyAlways(onboardingComplete, state, message) ==
    IF ~onboardingComplete
    THEN [pc |-> "idle", agent |-> "onboarding", flow |-> state.activeFlow,
          classified |-> FALSE, error |-> FALSE]
    ELSE [pc |-> IF determineAgent(message) # state.currentAgent
                 THEN "setAgent" ELSE "idle",
          agent |-> determineAgent(message), flow |-> state.activeFlow,
          classified |-> TRUE, error |-> FALSE]

\* route up to its write: the state read by getState, the agent selected
\* (getAgent throws for a type that is not registered: error), whether
\* determineAgent ran, and pc "setAgent" when the setAgent call is to follow
route(onboardingComplete, state, message) ==
    IF ~onboardingComplete
    THEN [pc |-> "idle", agent |-> "onboarding", flow |-> state.activeFlow,
          classified |-> FALSE, error |-> FALSE]
    ELSE IF state.exists /\ state.activeFlow # "none"
    THEN [pc |-> "idle",
          agent |-> IF state.currentAgent \in Registered
                    THEN state.currentAgent ELSE "none",
          flow |-> state.activeFlow, classified |-> FALSE,
          error |-> state.currentAgent \notin Registered]
    ELSE [pc |-> IF determineAgent(message) # state.currentAgent
                 THEN "setAgent" ELSE "idle",
          agent |-> determineAgent(message), flow |-> state.activeFlow,
          classified |-> TRUE, error |-> FALSE]

Idle(result) == [pc |-> "idle", flow |-> "none", data |-> EmptyData,
                 partial |-> EmptyData, result |-> result,
                 agent |-> "none"]

\* ------------------------------------------- WebhookController, MessageHandler
\* the users row findOrCreateUser creates; name 0 = no name stored
NewUser == [onboardingComplete |-> FALSE, name |-> 0]

\* message.text.body of the inbound messages
InboundTexts == {"my name is Asha", "x"}

\* collectName: the prefix is stripped and the first word taken
firstName(message) == IF message = "my name is Asha" THEN "Asha" ELSE "x"

\* firstName.length
NameLength(name) == IF name = "Asha" THEN 4 ELSE 1

\* flowData.name and users.name as stored: the names by number
NameValue(name) == IF name = "Asha" THEN 1 ELSE 2

\* the rows the webhook and the agents store
InboundRow == [direction |-> "inbound", detectedIntent |-> "none",
               activeFlow |-> "none", relatedReminderId |-> "none"]
OutboundRow(intent) == [direction |-> "outbound", detectedIntent |-> intent,
                        activeFlow |-> "none", relatedReminderId |-> "none"]

\* storeMessage that replaces the newest row of the user
storeMessageOverwrite(log, kind) ==
    IF log = <<>> THEN Append(log, createConversation(kind, 1))
    ELSE [log EXCEPT ![Len(log)] = createConversation(kind, Len(log))]

\* ConversationService.storeMessage on the log
storeMessage(log, kind) == Append(log, createConversation(kind, Len(log) + 1))

\* AgentResponse: flowComplete and shouldSwitchAgent
Response(flowComplete, shouldSwitchAgent) ==
    [flowComplete |-> flowComplete, shouldSwitchAgent |-> shouldSwitchAgent]

\* what a handle() call did: the agent state and users row it leaves, the
\* intents of the messages it sent, its response, and whether it threw
Handled(state, usr, sent, response, threw) ==
    [state |-> state, user |-> usr, sent |-> sent, response |-> response,
     threw |-> threw]

\* OnboardingAgent.startOnboarding: two sendMessage calls, then startFlow,
\* which throws when the user has no agent state row
startOnboarding(state, usr) ==
    Handled(IF state.exists THEN startFlow(state, "onboarding", EmptyData) ELSE state,
            usr, <<"onboarding_start", "onboarding_ask_name">>,
            Response(FALSE, "none"), ~state.exists)

\* OnboardingAgent.collectName: a first name of fewer than 2 or more than 30
\* characters is asked again; else updateFlowData({ name }) and the
\* confirmation, with flowComplete: true
collectName(state, usr, message) ==
    IF NameLength(firstName(message)) < 2 \/ NameLength(firstName(message)) > 30
    THEN Handled(state, usr, <<"onboarding_name_retry">>, Response(FALSE, "none"), FALSE)
    ELSE Handled(IF state.exists /\ state.activeFlow # "none"
                 THEN updateFlowData(state,
                          mergedData(state.flowData,
                              [EmptyData EXCEPT !["name"] = NameValue(firstName(message))]))
                 ELSE state,
                 usr, <<"onboarding_complete">>, Response(TRUE, "none"), FALSE)

\* OnboardingAgent.completeOnboarding: user.update, completeFlow (throws
\* without a row), setAgent('reminder')
completeOnboarding(state, usr, name) ==
    Handled(IF state.exists THEN setAgent(completeFlow(state), "reminder") ELSE state,
            [usr EXCEPT !.name = name, !.onboardingComplete = TRUE],
            <<>>, Response(TRUE, "reminder"), ~state.exists)

\* OnboardingAgent.handle on the context route built
onboardingHandle(state, usr, ctx, message) ==
    IF ctx.flow = "none" THEN startOnboarding(state, usr)
    ELSE IF ctx.flow = "onboarding" /\ ctx.name = 0 THEN collectName(state, usr, message)
    ELSE IF ctx.flow = "onboarding" THEN completeOnboarding(state, usr, ctx.name)
    ELSE Handled(state, usr, <<>>, Response(FALSE, "none"), FALSE)

\* ConversationAgent.handle: the reply to the user; no flow, no switch
conversationHandle(state, usr) ==
    Handled(state, usr, <<"none">>, Response(FALSE, "none"), FALSE)

\* handleUserMessage after agent.handle: switchAgent when the response asks
\* for it, and completeFlow when flowComplete and the row read has a flow
afterHandle(state, response) ==
    LET switched == IF response.shouldSwitchAgent # "none"
                    THEN switchAgent(state, response.shouldSwitchAgent, "none")
                    ELSE state
    IN  IF response.flowComplete /\ switched.exists /\ switched.activeFlow # "none"
        THEN completeFlow(switched) ELSE switched

RECURSIVE storeAll(_, _)
\* one sendMessage after the other: the outbound rows of the messages sent
storeAll(log, sent) ==
    IF sent = <<>> THEN log
    ELSE storeAll(storeMessage(log, OutboundRow(Head(sent))), Tail(sent))

\* no webhook request in progress, none received yet
NoWebhook == [pc |-> "idle", texts |-> <<>>, left |-> 0, statuses |-> 0,
              ctx |-> [agent |-> "none", flow |-> "none", name |-> 0],
              stored |-> 0, raised |-> FALSE, greeted |-> FALSE,
              errorText |-> FALSE, sendFailed |-> FALSE, statusesDone |-> 0]

\* processWebhookPayload: the next message, then the statuses, then the end
continue(inb) ==
    [inb EXCEPT !.pc = IF inb.left > 0 THEN "message"
                       ELSE IF inb.statuses > 0 THEN "status" ELSE "idle"]

\* ------------------------------------------------------------------- Init
Init ==
    /\ now = 0
    /\ reminders = [r \in Rids |-> NoRow]
    /\ jobs = [r \in Rids |-> [s \in Slots |-> NoJob]]
    /\ creating = [r \in Rids |-> FALSE]
    /\ sweep = IdleSweep
    /\ cancelOp = IdleCancel
    /\ hist = [r \in Rids |-> [sendOK |-> 0, sentTrans |-> 0, fired |-> 0,
                               dedup |-> FALSE, removed |-> FALSE,
                               cancelledIdle |-> FALSE, outbound |-> 0,
                               cancelDone |-> FALSE, confirmed |-> FALSE]]
    /\ agentState = NoState
    /\ handler = [h \in Handlers |-> Idle("none")]
    /\ written = {}
    /\ scheduler = NewScheduler
    /\ user = NewUser
    /\ routed = NotRouted
    /\ conv = NoConversation
    /\ webhook = NoWebhook

\* ------------------------------------------------------------------ clock
Tick ==
    /\ now < MaxTime
    /\ now' = now + 1
    /\ UNCHANGED <<reminders, jobs, creating, sweep, cancelOp, hist, flowVars, scheduler, user, routed, conv, webhook>>

\* ------------------------------------------- ConversationAgent: create path
\* handleCreateReminder: reminderAgent.createReminder(reminderData)
CreateReminder(r, t) ==
    /\ reminders[r].status = "none"
    /\ ~HasJob(jobs, r)
    /\ reminders' = [reminders EXCEPT ![r] = create(t, TRUE)]
    /\ creating' = [creating EXCEPT ![r] = TRUE]
    /\ UNCHANGED <<now, jobs, sweep, cancelOp, hist, flowVars, scheduler, user, routed, conv, webhook>>

\* handleCreateReminder: reminderQueue.scheduleReminder(reminder, phoneNumber);
\* ok = FALSE is the call throwing (queue store unreachable), caught by the handler
CreateSchedule(r, ok) ==
    /\ creating[r]
    /\ creating' = [creating EXCEPT ![r] = FALSE]
    /\ IF ok
       THEN /\ jobs' = scheduleReminder(jobs, r)
            /\ hist' = [hist EXCEPT ![r].dedup = @ \/ HasJob(jobs, r)]
       ELSE UNCHANGED <<jobs, hist>>
    /\ UNCHANGED <<now, reminders, sweep, cancelOp, flowVars, scheduler, user, routed, conv, webhook>>

\* --------------------------------------------------------- ReminderScheduler
\* checkAndScheduleReminders: getPendingReminders(now + 1 hour), ordered
SweepStart ==
    /\ sweep.pc = "idle"
    /\ findPendingReminders(now + OneHour) # {}
    /\ sweep' = beginSweep
    /\ UNCHANGED <<now, reminders, jobs, creating, cancelOp, hist, flowVars, scheduler, user, routed, conv, webhook>>

\* one iteration of the for loop: getUserById, `continue` when there is no
\* such user, then queue.scheduleReminder; ok = FALSE is either call throwing,
\* caught inside the loop
SweepOne(ok) ==
    /\ sweep.pc = "loop"
    /\ LET r == Head(sweep.list)
       IN /\ sweep' = continueLoop(sweep, ok /\ reminders[r].userExists)
          /\ IF ok /\ reminders[r].userExists
             THEN /\ jobs' = scheduleReminder(jobs, r)
                  /\ hist' = [hist EXCEPT ![r].dedup = @ \/ HasJob(jobs, r)]
             ELSE UNCHANGED <<jobs, hist>>
    /\ UNCHANGED <<now, reminders, creating, cancelOp, flowVars, scheduler, user, routed, conv, webhook>>

\* ------------------------------------------------------------ ReminderWorker
\* BullMQ hands a due job to a free worker (concurrency: 5)
Activate(r, s) ==
    /\ jobs[r][s].state = "delayed"
    /\ jobs[r][s].due <= now
    /\ Cardinality(ActiveJobs) < Concurrency
    /\ jobs' = [jobs EXCEPT ![r][s].state = "active", ![r][s].pc = "fetch",
                             ![r][s].due = 0]
    /\ hist' = [hist EXCEPT ![r].fired = IF jobs[r][s].attemptsMade = 0 THEN Inc(@) ELSE @]
    /\ UNCHANGED <<now, reminders, creating, sweep, cancelOp, flowVars, scheduler, user, routed, conv, webhook>>

\* a processor that returned, handled as one that threw
CompletedRetried(job) ==
    [job EXCEPT !.state = "delayed", !.pc = "none", !.due = now,
                !.attemptsMade = @ + 1, !.msgId = 0]

\* the processor returned: the job moves to the completed set
Completed(job) == [job EXCEPT !.state = "completed", !.pc = "none", !.msgId = 0]

\* a queue without the attempts option: a processor that threw is retried
\* every time
ThrownRetriedForever(job) ==
    [job EXCEPT !.state = "delayed", !.pc = "none", !.due = now,
                !.attemptsMade = IF @ < Attempts THEN @ + 1 ELSE @, !.msgId = 0]

\* the processor threw: retried until attempts: 3 is used up, then the failed set
Thrown(job) ==
    IF job.attemptsMade + 1 < Attempts
    THEN [job EXCEPT !.state = "delayed", !.pc = "none", !.due = now,
                     !.attemptsMade = @ + 1, !.msgId = 0]
    ELSE [job EXCEPT !.state = "failed", !.pc = "none", !.attemptsMade = @ + 1,
                     !.msgId = 0]

\* processReminder: getReminderById and the two early returns;
\* ok = FALSE is getReminderById throwing, which enters the catch block
Fetch(r, s, ok) ==
    /\ jobs[r][s].state = "active"
    /\ jobs[r][s].pc = "fetch"
    /\ jobs' = IF ~ok THEN [jobs EXCEPT ![r][s].pc = "catch"]
               ELSE IF reminders[r].status # "pending"
                    THEN [jobs EXCEPT ![r][s] = Completed(@)]
                    ELSE [jobs EXCEPT ![r][s].pc = "send"]
    /\ UNCHANGED <<now, reminders, creating, sweep, cancelOp, hist, flowVars, scheduler, user, routed, conv, webhook>>

\* processReminder: whatsappService.sendTextMessage; ok = FALSE is the call throwing
Send(r, s, ok) ==
    /\ jobs[r][s].state = "active"
    /\ jobs[r][s].pc = "send"
    /\ IF ok
       THEN /\ jobs' = [jobs EXCEPT ![r][s].pc = "markSent",
                                    ![r][s].msgId = Inc(hist[r].sendOK)]
            /\ hist' = [hist EXCEPT ![r].sendOK = Inc(@)]
       ELSE /\ jobs' = [jobs EXCEPT ![r][s].pc = "catch"]
            /\ UNCHANGED hist
    /\ UNCHANGED <<now, reminders, creating, sweep, cancelOp, flowVars, scheduler, user, routed, conv, webhook>>

\* processReminder: reminderService.markAsSent(reminderId, result.messageId)
MarkSent(r, s, ok) ==
    /\ jobs[r][s].state = "active"
    /\ jobs[r][s].pc = "markSent"
    /\ IF ok /\ RowExists(r)
       THEN /\ reminders' = [reminders EXCEPT ![r] = markAsSent(@, jobs[r][s].msgId)]
            /\ jobs' = [jobs EXCEPT ![r][s].pc = "store"]
            /\ hist' = [hist EXCEPT ![r].sentTrans =
                            IF reminders[r].status = "pending"
                               /\ markAsSent(reminders[r], 0).status = "sent"
                            THEN Inc(@) ELSE @]
       ELSE /\ jobs' = [jobs EXCEPT ![r][s].pc = "catch"]
            /\ UNCHANGED <<reminders, hist>>
    /\ UNCHANGED <<now, creating, sweep, cancelOp, flowVars, scheduler, user, routed, conv, webhook>>

\* processReminder: conversationService.storeMessage (outbound); then the job is done
StoreMessage(r, s, ok) ==
    /\ jobs[r][s].state = "active"
    /\ jobs[r][s].pc = "store"
    /\ jobs' = IF ok THEN [jobs EXCEPT ![r][s] = Completed(@)]
               ELSE [jobs EXCEPT ![r][s].pc = "catch"]
    /\ hist' = IF ok THEN [hist EXCEPT ![r].outbound = Inc(@)] ELSE hist
    /\ UNCHANGED <<now, reminders, creating, sweep, cancelOp, flowVars, scheduler, user, routed, conv, webhook>>

\* processReminder: the catch block: markAsFailed, then rethrow;
\* ok = FALSE is markAsFailed itself throwing
Catch(r, s, ok) ==
    /\ jobs[r][s].state = "active"
    /\ jobs[r][s].pc = "catch"
    /\ reminders' = IF ok /\ RowExists(r)
                    THEN [reminders EXCEPT ![r] = markAsFailed(@)] ELSE reminders
    /\ jobs' = [jobs EXCEPT ![r][s] = Thrown(@)]
    /\ UNCHANGED <<now, creating, sweep, cancelOp, hist, flowVars, scheduler, user, routed, conv, webhook>>

\* ------------------------------------------------------------ cancellation
\* ReminderAgent (storage) deleteReminder, called by handleDeleteReminder
deleteReminder(row) == cancel(row)

\* job.remove(): removes a job that no worker holds; throws on an active one
removeJob(q, r) ==
    IF \E s \in Slots : q[r][s].state \in {"delayed", "completed", "failed"}
    THEN [q EXCEPT ![r][CHOOSE s \in Slots :
                          q[r][s].state \in {"delayed", "completed", "failed"}] = NoJob]
    ELSE q

\* ReminderQueue.cancelReminder: getJob(reminderId), then job.remove() if found
cancelReminder(q, r) == IF HasJob(q, r) THEN removeJob(q, r) ELSE q

\* handleCancelRequest (kind "reminder") and handleDeleteReminder (kind
\* "conversation"), asked for number n by userId: the n-th of
\* getUpcomingReminders(userId) is chosen
CancelRead(kind, userId, n) ==
    /\ cancelOp.pc = "idle"
    /\ n \in 1..Len(SortAsc(getUpcomingReminders(userId)))
    /\ cancelOp' = [pc |-> "write", target |-> SortAsc(getUpcomingReminders(userId))[n],
                    kind |-> kind, userId |-> userId, n |-> n]
    /\ UNCHANGED <<now, reminders, jobs, creating, sweep, hist, flowVars, scheduler, user, routed, conv, webhook>>

\* the same handlers when index < 0 or index >= reminders.length: the user is
\* told there is no such reminder and the handler returns
CancelInvalid(kind, userId, n) ==
    /\ cancelOp.pc = "idle"
    /\ n \notin 1..Len(SortAsc(getUpcomingReminders(userId)))
    /\ cancelOp' = [IdleCancel EXCEPT !.kind = kind, !.userId = userId, !.n = n]
    /\ UNCHANGED <<now, reminders, jobs, creating, sweep, hist, flowVars, scheduler, user, routed, conv, webhook>>

\* reminderService.cancelReminder(id) / reminderAgent.deleteReminder(id);
\* ok = FALSE is the store call throwing, caught by the handler
CancelWrite(ok) ==
    /\ cancelOp.pc = "write"
    /\ IF ok /\ RowExists(cancelOp.target)
       THEN /\ reminders' = [reminders EXCEPT ![cancelOp.target] =
                                IF cancelOp.kind = "conversation"
                                THEN deleteReminder(@) ELSE cancel(@)]
            /\ cancelOp' = IF cancelOp.kind = "conversation"
                           THEN [cancelOp EXCEPT !.pc = "dequeue"]
                           ELSE IdleCancel
            /\ hist' = [hist EXCEPT ![cancelOp.target].cancelledIdle =
                            @ \/ (/\ reminders[cancelOp.target].status = "pending"
                                  /\ \A s \in Slots :
                                        jobs[cancelOp.target][s].state # "active")]
       ELSE /\ cancelOp' = IdleCancel
            /\ UNCHANGED <<reminders, hist>>
    /\ UNCHANGED <<now, jobs, creating, sweep, flowVars, scheduler, user, routed, conv, webhook>>

\* handleDeleteReminder: reminderQueue.cancelReminder(reminder.id)
CancelDequeue ==
    /\ cancelOp.pc = "dequeue"
    /\ jobs' = cancelReminder(jobs, cancelOp.target)
    /\ hist' = [hist EXCEPT ![cancelOp.target].removed =
                    @ \/ (cancelReminder(jobs, cancelOp.target) # jobs),
                             ![cancelOp.target].cancelDone =
                    @ \/ (\A s \in Slots : jobs[cancelOp.target][s].state # "active")]
    /\ cancelOp' = IdleCancel
    /\ UNCHANGED <<now, reminders, creating, sweep, flowVars, scheduler, user, routed, conv, webhook>>

\* ------------------------------------------------------------ specification
Next ==
    \/ Tick
    \/ \E r \in Tracked, t \in 1..MaxTime : CreateReminder(r, t)
    \/ \E r \in Tracked, ok \in BOOLEAN : CreateSchedule(r, ok)
    \/ SweepStart
    \/ \E ok \in BOOLEAN : SweepOne(ok)
    \/ \E r \in Tracked, s \in Slots : Activate(r, s)
    \/ \E r \in Tracked, s \in Slots, ok \in BOOLEAN : Fetch(r, s, ok)
    \/ \E r \in Tracked, s \in Slots, ok \in BOOLEAN : Send(r, s, ok)
    \/ \E r \in Tracked, s \in Slots, ok \in BOOLEAN : MarkSent(r, s, ok)
    \/ \E r \in Tracked, s \in Slots, ok \in BOOLEAN : StoreMessage(r, s, ok)
    \/ \E r \in Tracked, s \in Slots, ok \in BOOLEAN : Catch(r, s, ok)
    \/ \E kind \in {"reminder", "conversation"}, n \in 1..Cardinality(Rids) : CancelRead(kind, "u1", n)
    \/ \E ok \in BOOLEAN : CancelWrite(ok)
    \/ CancelDequeue

Spec == Init /\ [][Next]_vars

\* ------------------------------------------------ handlers calling the service
\* setAgent(userId, agent): one upsert
SetAgent(h, agent) ==
    /\ handler[h].pc = "idle"
    /\ agentState' = setAgent(agentState, agent)
    /\ handler' = [handler EXCEPT ![h] = Idle("ok")]
    /\ UNCHANGED <<written, now, reminders, jobs, creating, sweep, cancelOp, hist, scheduler, user, routed, conv, webhook>>

\* startFlow without the test of the row getState returned
StartFlowReadNoCheck(h, flowName, initialData) ==
    /\ handler[h].pc = "idle"
    /\ handler' = [handler EXCEPT ![h] =
                      [pc |-> "startWrite", flow |-> flowName,
                       data |-> initialData, partial |-> EmptyData,
                       result |-> "none", agent |-> "none"]]
    /\ UNCHANGED <<agentState, written, now, reminders, jobs, creating, sweep,
                   cancelOp, hist, scheduler, user, routed, conv, webhook>>

\* startFlow: getState; throws 'Agent state not found' when there is no row
StartFlowRead(h, flowName, initialData) ==
    /\ handler[h].pc = "idle"
    /\ handler' = [handler EXCEPT ![h] =
                      IF agentState.exists
                      THEN [pc |-> "startWrite", flow |-> flowName,
                            data |-> initialData, partial |-> EmptyData,
                            result |-> "none", agent |-> "none"]
                      ELSE Idle("error")]
    /\ UNCHANGED <<agentState, written, now, reminders, jobs, creating, sweep, cancelOp, hist, scheduler, user, routed, conv, webhook>>

\* startFlow: the update that sets activeFlow and flowData
StartFlowWrite(h) ==
    /\ handler[h].pc = "startWrite"
    /\ agentState' = startFlow(agentState, handler[h].flow, handler[h].data)
    /\ handler' = [handler EXCEPT ![h] = Idle("ok")]
    /\ written' = {}
    /\ UNCHANGED <<now, reminders, jobs, creating, sweep, cancelOp, hist, scheduler, user, routed, conv, webhook>>

\* updateFlowData without the early return
UpdateFlowDataReadNoGuard(h, data) ==
    /\ handler[h].pc = "idle"
    /\ handler' = [handler EXCEPT ![h] =
                      [pc |-> "updateWrite", flow |-> "none",
                       data |-> mergedData(agentState.flowData, data),
                       partial |-> data, result |-> "none", agent |-> "none"]]
    /\ UNCHANGED <<agentState, written, now, reminders, jobs, creating, sweep,
                   cancelOp, hist, scheduler, user, routed, conv, webhook>>

\* updateFlowData: getState, the early return (a warning is logged and the
\* call returns: "warned"), and the merge with the data read
UpdateFlowDataRead(h, data) ==
    /\ handler[h].pc = "idle"
    /\ handler' = [handler EXCEPT ![h] =
                      IF ~agentState.exists \/ agentState.activeFlow = "none"
                      THEN Idle("warned")
                      ELSE [pc |-> "updateWrite", flow |-> "none",
                            data |-> mergedData(agentState.flowData, data),
                            partial |-> data, result |-> "none", agent |-> "none"]]
    /\ UNCHANGED <<agentState, written, now, reminders, jobs, creating, sweep, cancelOp, hist, scheduler, user, routed, conv, webhook>>

\* updateFlowData: the update that stores the merged data
UpdateFlowDataWrite(h) ==
    /\ handler[h].pc = "updateWrite"
    /\ agentState' = updateFlowData(agentState, handler[h].data)
    /\ handler' = [handler EXCEPT ![h] = Idle("ok")]
    /\ written' = written \cup KeysOf(handler[h].partial)
    /\ UNCHANGED <<now, reminders, jobs, creating, sweep, cancelOp, hist, scheduler, user, routed, conv, webhook>>

\* completeFlow: one update ("cleared"); prisma throws its record-not-found
\* error when no row has the userId ("notFound")
CompleteFlow(h) ==
    /\ handler[h].pc = "idle"
    /\ agentState' = IF agentState.exists THEN completeFlow(agentState) ELSE agentState
    /\ handler' = [handler EXCEPT ![h] =
                      Idle(IF agentState.exists THEN "cleared" ELSE "notFound")]
    /\ written' = {}
    /\ UNCHANGED <<now, reminders, jobs, creating, sweep, cancelOp, hist, scheduler, user, routed, conv, webhook>>

\* switchAgent(userId, newAgent, flowName?): one upsert
SwitchAgent(h, newAgent, flowName) ==
    /\ handler[h].pc = "idle"
    /\ agentState' = switchAgent(agentState, newAgent, flowName)
    /\ handler' = [handler EXCEPT ![h] =
                      [Idle("switched") EXCEPT !.agent = newAgent, !.flow = flowName]]
    /\ written' = {}
    /\ UNCHANGED <<now, reminders, jobs, creating, sweep, cancelOp, hist, scheduler, user, routed, conv, webhook>>

FlowNext ==
    \/ \E h \in Handlers, a \in Agents : SetAgent(h, a)
    \/ \E h \in Handlers, f \in Flows, d \in InitialDataSets : StartFlowRead(h, f, d)
    \/ \E h \in Handlers : StartFlowWrite(h)
    \/ \E h \in Handlers, d \in PartialDataSets : UpdateFlowDataRead(h, d)
    \/ \E h \in Handlers : UpdateFlowDataWrite(h)
    \/ \E h \in Handlers : CompleteFlow(h)
    \/ \E h \in Handlers, a \in Agents, f \in Flows \cup {"none"} : SwitchAgent(h, a, f)

FlowSpec == Init /\ [][FlowNext]_vars

\* the executor against a notifier that may fail: every store and queue call
\* succeeds and nothing is cancelled
RetryNext ==
    \/ Tick
    \/ \E r \in Tracked, t \in 1..MaxTime : CreateReminder(r, t)
    \/ \E r \in Tracked : CreateSchedule(r, TRUE)
    \/ SweepStart
    \/ SweepOne(TRUE)
    \/ \E r \in Tracked, s \in Slots : Activate(r, s)
    \/ \E r \in Tracked, s \in Slots : Fetch(r, s, TRUE)
    \/ \E r \in Tracked, s \in Slots, ok \in BOOLEAN : Send(r, s, ok)
    \/ \E r \in Tracked, s \in Slots : MarkSent(r, s, TRUE)
    \/ \E r \in Tracked, s \in Slots : StoreMessage(r, s, TRUE)
    \/ \E r \in Tracked, s \in Slots : Catch(r, s, TRUE)

RetrySpec == Init /\ [][RetryNext]_vars

\* the message ids the notifier hands out and the statuses a webhook reports
MessageIds == 1..CounterCap
WebhookStatuses == {"sent", "delivered", "read", "failed"}

\* WebhookController.processStatusUpdate -> MessageHandler.handleStatusUpdate:
\* the handler logs the update and the branch for delivered and read is
\* empty, so nothing is written to the store; hist records that a delivered
\* update carrying the message id of a sent reminder has been handled
handleStatusUpdate(messageId, status) ==
    /\ hist' = [r \in Rids |->
                   IF /\ status = "delivered"
                      /\ reminders[r].status = "sent"
                      /\ reminders[r].whatsappMsgId = messageId
                   THEN [hist[r] EXCEPT !.confirmed = TRUE]
                   ELSE hist[r]]
    /\ UNCHANGED <<now, reminders, jobs, creating, sweep, cancelOp, flowVars, scheduler, user, routed, conv, webhook>>

\* the executor of RetrySpec beside the webhook that reports statuses
DeliveryNext ==
    \/ RetryNext
    \/ \E messageId \in MessageIds, status \in WebhookStatuses :
           handleStatusUpdate(messageId, status)

DeliverySpec == Init /\ [][DeliveryNext]_vars

\* the worker over stores, a queue and a notifier whose calls may fail, with
\* the handlers that create reminders and the sweeper; nothing is cancelled
WorkerNext ==
    \/ Tick
    \/ \E r \in Tracked, t \in 1..MaxTime : CreateReminder(r, t)
    \/ \E r \in Tracked, ok \in BOOLEAN : CreateSchedule(r, ok)
    \/ SweepStart
    \/ \E ok \in BOOLEAN : SweepOne(ok)
    \/ \E r \in Tracked, s \in Slots : Activate(r, s)
    \/ \E r \in Tracked, s \in Slots, ok \in BOOLEAN : Fetch(r, s, ok)
    \/ \E r \in Tracked, s \in Slots, ok \in BOOLEAN : Send(r, s, ok)
    \/ \E r \in Tracked, s \in Slots, ok \in BOOLEAN : MarkSent(r, s, ok)
    \/ \E r \in Tracked, s \in Slots, ok \in BOOLEAN : StoreMessage(r, s, ok)
    \/ \E r \in Tracked, s \in Slots, ok \in BOOLEAN : Catch(r, s, ok)

\* time passes, the worker takes every due job and each call of the
\* processor returns or throws
WorkerSpec ==
    /\ Init
    /\ [][WorkerNext]_vars
    /\ WF_vars(Tick)
    /\ \A r \in Tracked, s \in Slots :
          /\ WF_vars(Activate(r, s))
          /\ WF_vars(\E ok \in BOOLEAN : Fetch(r, s, ok))
          /\ WF_vars(\E ok \in BOOLEAN : Send(r, s, ok))
          /\ WF_vars(\E ok \in BOOLEAN : MarkSent(r, s, ok))
          /\ WF_vars(\E ok \in BOOLEAN : StoreMessage(r, s, ok))
          /\ WF_vars(\E ok \in BOOLEAN : Catch(r, s, ok))

\* AdminController.deleteUserData: one transaction deletes the conversations,
\* the reminders and the user; the jobs of the queue are left alone.  A
\* deleted row keeps scheduledTime, the value the handlers that read it hold.
DeleteUserData ==
    /\ \E r \in Rids : RowExists(r)
    /\ reminders' = [r \in Rids |->
                        [NoRow EXCEPT !.scheduledTime = reminders[r].scheduledTime]]
    /\ hist' = [r \in Rids |-> [hist[r] EXCEPT !.outbound = 0]]
    /\ UNCHANGED <<now, jobs, creating, sweep, cancelOp, flowVars, scheduler, user, routed, conv, webhook>>

\* the executor with a ReminderStore whose reads succeed, beside the handlers
\* that create, cancel and delete; writes and the notifier may fail
StaleNext ==
    \/ Tick
    \/ \E r \in Tracked, t \in 1..MaxTime : CreateReminder(r, t)
    \/ \E r \in Tracked, ok \in BOOLEAN : CreateSchedule(r, ok)
    \/ SweepStart
    \/ \E ok \in BOOLEAN : SweepOne(ok)
    \/ \E r \in Tracked, s \in Slots : Activate(r, s)
    \/ \E r \in Tracked, s \in Slots : Fetch(r, s, TRUE)
    \/ \E r \in Tracked, s \in Slots, ok \in BOOLEAN : Send(r, s, ok)
    \/ \E r \in Tracked, s \in Slots, ok \in BOOLEAN : MarkSent(r, s, ok)
    \/ \E r \in Tracked, s \in Slots, ok \in BOOLEAN : StoreMessage(r, s, ok)
    \/ \E r \in Tracked, s \in Slots, ok \in BOOLEAN : Catch(r, s, ok)
    \/ \E kind \in {"reminder", "conversation"}, n \in 1..Cardinality(Rids) : CancelRead(kind, "u1", n)
    \/ \E ok \in BOOLEAN : CancelWrite(ok)
    \/ CancelDequeue
    \/ DeleteUserData

StaleSpec == Init /\ [][StaleNext]_vars

\* after a restart: pending reminders in the store, nothing in the queue; the
\* notifier and the stores work, the sweeper ticks and the worker polls
RecoveryInit ==
    /\ now = 0
    /\ reminders \in [Rids -> {create(t, u) : t \in 1..MaxTime, u \in BOOLEAN}]
    /\ jobs = [r \in Rids |-> [s \in Slots |-> NoJob]]
    /\ creating = [r \in Rids |-> FALSE]
    /\ sweep = IdleSweep
    /\ cancelOp = IdleCancel
    /\ hist = [r \in Rids |-> [sendOK |-> 0, sentTrans |-> 0, fired |-> 0,
                               dedup |-> FALSE, removed |-> FALSE,
                               cancelledIdle |-> FALSE, outbound |-> 0,
                               cancelDone |-> FALSE, confirmed |-> FALSE]]
    /\ agentState = NoState
    /\ handler = [h \in Handlers |-> Idle("none")]
    /\ written = {}
    /\ scheduler = NewScheduler
    /\ user = NewUser
    /\ routed = NotRouted
    /\ conv = NoConversation
    /\ webhook = NoWebhook

RecoveryNext ==
    \/ Tick
    \/ SweepStart
    \/ SweepOne(TRUE)
    \/ \E r \in Rids, s \in Slots : Activate(r, s)
    \/ \E r \in Rids, s \in Slots : Fetch(r, s, TRUE)
    \/ \E r \in Rids, s \in Slots : Send(r, s, TRUE)
    \/ \E r \in Rids, s \in Slots : MarkSent(r, s, TRUE)
    \/ \E r \in Rids, s \in Slots : StoreMessage(r, s, TRUE)

RecoverySpec ==
    /\ RecoveryInit
    /\ [][RecoveryNext]_vars
    /\ WF_vars(Tick)
    /\ WF_vars(SweepStart)
    /\ WF_vars(SweepOne(TRUE))
    /\ \A r \in Rids, s \in Slots :
          /\ WF_vars(Activate(r, s))
          /\ WF_vars(Fetch(r, s, TRUE))
          /\ WF_vars(Send(r, s, TRUE))
          /\ WF_vars(MarkSent(r, s, TRUE))
          /\ WF_vars(StoreMessage(r, s, TRUE))

\* startServer: reminderScheduler.start()
Start ==
    /\ scheduler.phase = "new"
    /\ scheduler' = start(scheduler)
    /\ sweep' = IF scheduler'.begun # scheduler.begun THEN beginSweep ELSE sweep
    /\ UNCHANGED <<now, reminders, jobs, creating, cancelOp, hist, flowVars, user, routed, conv, webhook>>

\* one period of REMINDER_CHECK_INTERVAL_MS elapses and the setInterval
\* callback calls checkAndScheduleReminders; a sweep ends within its period
IntervalFire ==
    /\ scheduler.timers > 0
    /\ sweep.pc = "idle"
    /\ scheduler.periods < CounterCap
    /\ scheduler' = [scheduler EXCEPT !.periods = @ + 1, !.begun = @ + 1]
    /\ sweep' = beginSweep
    /\ UNCHANGED <<now, reminders, jobs, creating, cancelOp, hist, flowVars, user, routed, conv, webhook>>

\* shutdown: reminderScheduler.stop(); a sweep that runs goes on
Stop ==
    /\ scheduler.phase = "running"
    /\ scheduler' = stop(scheduler)
    /\ UNCHANGED <<now, reminders, jobs, creating, sweep, cancelOp, hist, flowVars, user, routed, conv, webhook>>

\* the sweeper from startup to shutdown over the pending reminders of the
\* store; the owner lookup and the queue may fail
SchedulerNext ==
    \/ Tick
    \/ Start
    \/ IntervalFire
    \/ Stop
    \/ \E ok \in BOOLEAN : SweepOne(ok)

SchedulerSpec == RecoveryInit /\ [][SchedulerNext]_vars

\* start() called whatever the state of the scheduler, between two sweeps
StartCall ==
    /\ scheduler.timers < MaxTimers
    /\ scheduler.begun < MaxStarts
    /\ sweep.pc = "idle"
    /\ scheduler' = start(scheduler)
    /\ sweep' = beginSweep
    /\ UNCHANGED <<now, reminders, jobs, creating, cancelOp, hist, flowVars, user, routed, conv, webhook>>

\* the sweeper under any sequence of start() and stop() calls
LifecycleNext ==
    \/ Tick
    \/ StartCall
    \/ IntervalFire
    \/ Stop
    \/ \E ok \in BOOLEAN : SweepOne(ok)

LifecycleSpec == RecoveryInit /\ [][LifecycleNext]_vars

\* OnboardingAgent.completeOnboarding: prisma.user.update sets onboardingComplete
MarkOnboarded ==
    /\ ~user.onboardingComplete
    /\ user' = [user EXCEPT !.onboardingComplete = TRUE]
    /\ UNCHANGED <<now, reminders, jobs, creating, sweep, cancelOp, hist, flowVars,
                   scheduler, routed, conv, webhook>>

\* route: getState and the selection of the agent
RouteRead(message) ==
    /\ routed.pc = "idle"
    /\ routed' = route(user.onboardingComplete, agentState, message)
    /\ UNCHANGED <<now, reminders, jobs, creating, sweep, cancelOp, hist, flowVars,
                   scheduler, user, conv, webhook>>

\* route: agentStateService.setAgent(user.id, decision.agent)
RouteSetAgent ==
    /\ routed.pc = "setAgent"
    /\ agentState' = setAgent(agentState, routed.agent)
    /\ routed' = [routed EXCEPT !.pc = "idle"]
    /\ UNCHANGED <<now, reminders, jobs, creating, sweep, cancelOp, hist, handler,
                   written, scheduler, user, conv, webhook>>

\* the router beside the handlers that call the agent state service
RouterNext ==
    \/ FlowNext
    \/ MarkOnboarded
    \/ \E m \in Messages : RouteRead(m)
    \/ RouteSetAgent

RouterSpec == Init /\ [][RouterNext]_vars

\* ConversationService.storeMessage
StoreConversation(kind) ==
    /\ Len(conv.log) < MaxLog
    /\ conv' = [conv EXCEPT !.log = Append(@, createConversation(kind, Len(@) + 1))]
    /\ UNCHANGED <<now, reminders, jobs, creating, sweep, cancelOp, hist, flowVars,
                   scheduler, user, routed, webhook>>

\* a caller of getContext; ctx keeps the limit, the number of rows stored at
\* the time of the call and the result
GetContext(limit) ==
    /\ conv' = [conv EXCEPT !.ctx = [op |-> "getContext", limit |-> limit,
                                      at |-> Len(conv.log),
                                      result |-> getContext(conv.log, limit)]]
    /\ UNCHANGED <<now, reminders, jobs, creating, sweep, cancelOp, hist, flowVars,
                   scheduler, user, routed, webhook>>

\* a caller of getActiveReminderContext
GetActiveReminderContext ==
    /\ conv' = [conv EXCEPT !.ctx = [op |-> "getActiveReminderContext",
                                      limit |-> ReminderContextLimit,
                                      at |-> Len(conv.log),
                                      result |-> getActiveReminderContext(conv.log)]]
    /\ UNCHANGED <<now, reminders, jobs, creating, sweep, cancelOp, hist, flowVars,
                   scheduler, user, routed, webhook>>

\* the conversation log of one user and its readers
ConversationNext ==
    \/ \E kind \in MessageKinds : StoreConversation(kind)
    \/ \E limit \in 0..MaxLimit : GetContext(limit)
    \/ GetActiveReminderContext

ConversationSpec == Init /\ [][ConversationNext]_vars

\* handleWebhook: a payload of n messages and k status updates arrives
Webhook(n, k) ==
    /\ webhook.pc = "idle"
    /\ Len(webhook.texts) + n <= MaxInbound
    /\ webhook' = continue([webhook EXCEPT !.left = n, !.statuses = k])
    /\ UNCHANGED <<now, reminders, jobs, creating, sweep, cancelOp, hist, flowVars,
                   scheduler, user, routed, conv>>

\* processWebhookPayload: processIncomingMessage is called for the next message
NextMessage(message) ==
    /\ webhook.pc = "message"
    /\ webhook' = [webhook EXCEPT !.pc = "storeOuter", !.texts = Append(@, message),
                                  !.left = @ - 1, !.stored = 0, !.raised = FALSE,
                                  !.greeted = FALSE, !.errorText = FALSE,
                                  !.sendFailed = FALSE,
                                  !.ctx = NoWebhook.ctx]
    /\ UNCHANGED <<now, reminders, jobs, creating, sweep, cancelOp, hist, flowVars,
                   scheduler, user, routed, conv>>

\* processIncomingMessage: findOrCreateUser, storeMessage (inbound, with the
\* WhatsApp message id) and markAsRead; ok = FALSE is a store call throwing,
\* which the catch of processIncomingMessage logs
OuterStore(ok) ==
    /\ webhook.pc = "storeOuter"
    /\ IF ok
       THEN /\ conv' = [conv EXCEPT !.log = storeMessage(@, InboundRow)]
            /\ webhook' = [webhook EXCEPT !.pc = "storeInner", !.stored = @ + 1]
       ELSE /\ conv' = conv
            /\ webhook' = continue([webhook EXCEPT !.raised = TRUE])
    /\ UNCHANGED <<now, reminders, jobs, creating, sweep, cancelOp, hist, flowVars,
                   scheduler, user, routed>>

\* handleUserMessage: storeMessage (inbound); ok = FALSE is the call throwing
InnerStore(ok) ==
    /\ webhook.pc = "storeInner"
    /\ IF ok
       THEN /\ conv' = [conv EXCEPT !.log = storeMessage(@, InboundRow)]
            /\ webhook' = [webhook EXCEPT !.pc = "route", !.stored = @ + 1]
       ELSE /\ conv' = conv
            /\ webhook' = [webhook EXCEPT !.pc = "catch", !.raised = TRUE]
    /\ UNCHANGED <<now, reminders, jobs, creating, sweep, cancelOp, hist, flowVars,
                   scheduler, user, routed>>

\* handleUserMessage: agentRouter.route: the context, the agent selected and
\* the setAgent call of the last branch; ok = FALSE is a read throwing
Route(ok) ==
    /\ webhook.pc = "route"
    /\ LET message == webhook.texts[Len(webhook.texts)]
           r == route(user.onboardingComplete, agentState, message)
       IN  IF ok /\ ~r.error
           THEN /\ webhook' = [webhook EXCEPT
                                  !.pc = "handle",
                                  !.ctx = [agent |-> r.agent,
                                           flow |-> agentState.activeFlow,
                                           name |-> agentState.flowData["name"]]]
                /\ agentState' = IF r.pc = "setAgent"
                                 THEN setAgent(agentState, r.agent) ELSE agentState
           ELSE /\ webhook' = [webhook EXCEPT !.pc = "catch", !.raised = TRUE]
                /\ agentState' = agentState
    /\ UNCHANGED <<now, reminders, jobs, creating, sweep, cancelOp, hist, handler,
                   written, scheduler, user, routed, conv>>

\* handleUserMessage: agent.handle(context), then switchAgent and completeFlow
\* as the response asks; ok = FALSE is the first call of the agent throwing
HandleMessage(ok) ==
    /\ webhook.pc = "handle"
    /\ LET message == webhook.texts[Len(webhook.texts)]
           h == IF webhook.ctx.agent = "onboarding"
                THEN onboardingHandle(agentState, user, webhook.ctx, message)
                ELSE conversationHandle(agentState, user)
       IN  IF ok
           THEN /\ conv' = [conv EXCEPT !.log = storeAll(@, h.sent)]
                /\ user' = h.user
                /\ agentState' = IF h.threw THEN h.state
                                 ELSE afterHandle(h.state, h.response)
                /\ webhook' = IF h.threw
                              THEN [webhook EXCEPT !.pc = "catch", !.raised = TRUE,
                                       !.greeted = "onboarding_start" \in
                                           {h.sent[i] : i \in 1..Len(h.sent)}]
                              ELSE continue([webhook EXCEPT
                                       !.greeted = "onboarding_start" \in
                                           {h.sent[i] : i \in 1..Len(h.sent)}])
           ELSE /\ webhook' = [webhook EXCEPT !.pc = "catch", !.raised = TRUE]
                /\ UNCHANGED <<conv, user, agentState>>
    /\ UNCHANGED <<now, reminders, jobs, creating, sweep, cancelOp, hist, handler,
                   written, scheduler, routed>>

\* handleUserMessage: the catch block sends the error text; ok = FALSE is
\* sendTextMessage throwing, which the catch of processIncomingMessage logs
ErrorText(ok) ==
    /\ webhook.pc = "catch"
    /\ webhook' = continue([webhook EXCEPT !.errorText = ok, !.sendFailed = ~ok])
    /\ UNCHANGED <<now, reminders, jobs, creating, sweep, cancelOp, hist, flowVars,
                   scheduler, user, routed, conv>>

\* processWebhookPayload: processStatusUpdate for the next status update;
\* handleStatusUpdate writes nothing
ProcessStatus ==
    /\ webhook.pc = "status"
    /\ webhook' = continue([webhook EXCEPT !.statuses = @ - 1, !.statusesDone = @ + 1])
    /\ UNCHANGED <<now, reminders, jobs, creating, sweep, cancelOp, hist, flowVars,
                   scheduler, user, routed, conv>>

\* one user's webhook requests, handled one after the other, with stores and
\* a notifier that work
OnboardingNext ==
    \/ \E n \in 1..MaxPayload, k \in 0..1 : Webhook(n, k)
    \/ \E message \in InboundTexts : NextMessage(message)
    \/ OuterStore(TRUE)
    \/ InnerStore(TRUE)
    \/ Route(TRUE)
    \/ HandleMessage(TRUE)
    \/ ErrorText(TRUE)
    \/ ProcessStatus

OnboardingSpec == Init /\ [][OnboardingNext]_vars

\* the same requests with stores, reads, agents and a notifier that may throw
WebhookNext ==
    \/ \E n \in 1..MaxPayload, k \in 0..1 : Webhook(n, k)
    \/ \E message \in InboundTexts : NextMessage(message)
    \/ \E ok \in BOOLEAN : OuterStore(ok)
    \/ \E ok \in BOOLEAN : InnerStore(ok)
    \/ \E ok \in BOOLEAN : Route(ok)
    \/ \E ok \in BOOLEAN : HandleMessage(ok)
    \/ \E ok \in BOOLEAN : ErrorText(ok)
    \/ ProcessStatus

WebhookSpec == Init /\ [][WebhookNext]_vars

\* every writer of the conversations table but the admin endpoints: the
\* webhook with the handlers it calls, and the worker
LogNext ==
    \/ OnboardingNext
    \/ RetryNext

LogSpec == Init /\ [][LogNext]_vars

\* rows as the lifecycle leaves them: pending, sent, failed or cancelled
StoredRows ==
    UNION {{create(t, u), markAsSent(create(t, u), 1), markAsFailed(create(t, u)),
            cancel(create(t, u))} : t \in 1..MaxTime, u \in BOOLEAN}

\* a start over a store that holds reminders of every status, with the queue
\* empty; the owner lookup and the queue work
SweepInit ==
    /\ now = 0
    /\ reminders \in [Rids -> StoredRows]
    /\ jobs = [r \in Rids |-> [s \in Slots |-> NoJob]]
    /\ creating = [r \in Rids |-> FALSE]
    /\ sweep = IdleSweep
    /\ cancelOp = IdleCancel
    /\ hist = [r \in Rids |-> [sendOK |-> 0, sentTrans |-> 0, fired |-> 0,
                               dedup |-> FALSE, removed |-> FALSE,
                               cancelledIdle |-> FALSE, outbound |-> 0,
                               cancelDone |-> FALSE, confirmed |-> FALSE]]
    /\ agentState = NoState
    /\ handler = [h \in Handlers |-> Idle("none")]
    /\ written = {}
    /\ scheduler = NewScheduler
    /\ user = NewUser
    /\ routed = NotRouted
    /\ conv = NoConversation
    /\ webhook = NoWebhook

SweepNext ==
    \/ Tick
    \/ Start
    \/ IntervalFire
    \/ SweepOne(TRUE)

SweepSpec == SweepInit /\ [][SweepNext]_vars

\* the reminders of two users as the lifecycle leaves them, each pending one
\* with its job in the queue
CancelInit ==
    /\ now = 0
    /\ reminders \in [Rids -> {[row EXCEPT !.userId = u] :
                                  row \in {x \in StoredRows : x.userExists},
                                  u \in Users}]
    /\ jobs = [r \in Rids |-> [s \in Slots |->
                  IF s = 1 /\ reminders[r].status = "pending"
                  THEN NewJob(reminders[r].scheduledTime) ELSE NoJob]]
    /\ creating = [r \in Rids |-> FALSE]
    /\ sweep = IdleSweep
    /\ cancelOp = IdleCancel
    /\ hist = [r \in Rids |-> [sendOK |-> 0, sentTrans |-> 0, fired |-> 0,
                               dedup |-> FALSE, removed |-> FALSE,
                               cancelledIdle |-> FALSE, outbound |-> 0,
                               cancelDone |-> FALSE, confirmed |-> FALSE]]
    /\ agentState = NoState
    /\ handler = [h \in Handlers |-> Idle("none")]
    /\ written = {}
    /\ scheduler = NewScheduler
    /\ user = NewUser
    /\ routed = NotRouted
    /\ conv = NoConversation
    /\ webhook = NoWebhook

\* cancel requests of either user for any number, over a store and a queue
\* that work, while time passes
CancelNext ==
    \/ Tick
    \/ \E kind \in {"reminder", "conversation"}, u \in Users,
          n \in 0..(Cardinality(Rids) + 1) : CancelRead(kind, u, n)
    \/ \E kind \in {"reminder", "conversation"}, u \in Users,
          n \in 0..(Cardinality(Rids) + 1) : CancelInvalid(kind, u, n)
    \/ CancelWrite(TRUE)
    \/ CancelDequeue

CancelSpec == CancelInit /\ [][CancelNext]_vars

\* ------------------------------------------------------------------ claims
JobCount(r) == Cardinality({s \in Slots : jobs[r][s].state # "absent"})

\* C1: for every reminder, the executor changes the status from pending to
\* sent at most once, however often its task is delivered again.
C1_SentAtMostOnce == \A r \in Rids : hist[r].sentTrans <= 1

\* the task is redelivered after a delivery that had marked the reminder sent
C1_Witness ==
    \E r \in Rids, s \in Slots :
        /\ hist[r].sentTrans = 1
        /\ jobs[r][s].state = "active"
        /\ jobs[r][s].pc = "fetch"
        /\ jobs[r][s].attemptsMade >= 1

\* C2: a reminder is never delivered twice: for every reminder the notifier's
\* send succeeds at most once, over all interleavings and redeliveries.
C2_NeverDeliveredTwice == \A r \in Rids : hist[r].sendOK <= 1

\* C3: a pending reminder cancelled while no task of it is running stays
\* cancelled, and no task of it reaches the notifier afterwards.
C3_CancelledBeforeFire ==
    \A r \in Rids :
        hist[r].cancelledIdle =>
            /\ reminders[r].status = "cancelled"
            /\ \A s \in Slots : jobs[r][s].pc \notin {"send", "markSent", "store"}

\* C4: once the status is delivered, failed or cancelled, no step changes it.
C4_TerminalIsFinal ==
    [][\A r \in Rids :
          reminders[r].status \in {"delivered", "failed", "cancelled"}
              => reminders'[r].status = reminders[r].status]_vars

\* C5: a pending reminder due within the hour, of an existing owner and with
\* no job in the queue, is enqueued under its id by the sweeper iteration
\* that takes it, and with a working notifier its status eventually becomes
\* sent.
C5_RecoverySweep ==
    /\ [][(sweep.pc = "loop" /\ sweep' # sweep /\ reminders[Head(sweep.list)].userExists)
              => HasJob(jobs', Head(sweep.list))]_vars
    /\ \A r \in Rids :
          (/\ reminders[r].status = "pending"
           /\ reminders[r].scheduledTime <= now + OneHour
           /\ reminders[r].userExists
           /\ ~HasJob(jobs, r))
              ~> (reminders[r].status = "sent")

\* a reminder that had no job was swept, fired and is sent
C5_Witness ==
    \E r \in Rids :
        /\ reminders[r].status = "sent"
        /\ jobs[r][1].state = "completed"
        /\ hist[r].sendOK = 1

C7_SecondStartRejected ==
    [][\A h \in Handlers :
          /\ (/\ handler[h].pc = "idle"
              /\ handler'[h].pc = "startWrite")
                 => agentState.activeFlow = "none"
          /\ (/\ handler[h].pc = "startWrite"
              /\ handler'[h].pc = "idle"
              /\ agentState.activeFlow # "none")
                 => (agentState' = agentState /\ handler'[h].result = "error")]_vars

\* C8: when no updateFlowData call is in progress and a flow is active,
\* flowData holds every key stored by the calls completed during that flow.
C8_NoLostUpdate ==
    (/\ agentState.activeFlow # "none"
     /\ \A h \in Handlers : handler[h].pc = "idle")
        => written \subseteq KeysOf(agentState.flowData)

\* C9: a failed send on attempt 1 or 2 of 3 leaves the status pending; only
\* the failure of the last attempt sets it to failed.
C9_PendingDuringRetries ==
    [][\A r \in Rids, s \in Slots :
          (/\ jobs[r][s].pc = "catch"
           /\ jobs'[r][s].pc # "catch"
           /\ jobs[r][s].attemptsMade + 1 < Attempts
           /\ reminders[r].status = "pending")
              => reminders'[r].status = "pending"]_vars

\* C10: a task that failed on an early attempt and finished on a later one
\* leaves the reminder sent, with the message delivered once.
C10_RetryThenSent ==
    \A r \in Rids, s \in Slots :
        (jobs[r][s].state = "completed" /\ jobs[r][s].attemptsMade >= 1)
            => (reminders[r].status = "sent" /\ hist[r].sendOK = 1)

C12_FailedOnlyFromPending ==
    [][\A r \in Rids :
          (reminders'[r].status = "failed" /\ reminders[r].status # "failed")
              => reminders[r].status = "pending"]_vars

\* C13: the step that marks a reminder sent stores status sent, a sentAt and
\* the message id the notifier returned; and when the task of a reminder has
\* completed after a successful send, the reminder is sent with that id and
\* exactly one outbound conversation message relates to it.
C13_SentRecorded ==
    /\ [][\A r \in Rids, s \in Slots :
             (jobs[r][s].pc = "markSent" /\ jobs'[r][s].pc = "store")
                 => /\ reminders'[r].status = "sent"
                    /\ reminders'[r].sentAt
                    /\ jobs[r][s].msgId # 0
                    /\ reminders'[r].whatsappMsgId = jobs[r][s].msgId]_vars
    /\ [](\A r \in Rids, s \in Slots :
             (jobs[r][s].state = "completed" /\ hist[r].sendOK >= 1)
                 => /\ reminders[r].status = "sent"
                    /\ reminders[r].sentAt
                    /\ reminders[r].whatsappMsgId = hist[r].sendOK
                    /\ hist[r].outbound = 1)

\* a task fired for a pending reminder, the send succeeded and the cycle is over
C13_Witness ==
    \E r \in Rids, s \in Slots :
        /\ jobs[r][s].state = "completed"
        /\ hist[r].sendOK = 1
        /\ reminders[r].status = "sent"
        /\ reminders[r].whatsappMsgId = 1
        /\ hist[r].outbound = 1

\* C14: when the executor has fetched the reminder of a task and the reminder
\* is absent or not pending, the step ends the task as completed, the notifier
\* is not invoked, no reminder row and no conversation message is written;
\* a completed task is never run again.
C14_StaleTaskAcknowledged ==
    [][\A r \in Rids, s \in Slots :
          /\ (/\ jobs[r][s].pc = "fetch"
              /\ jobs'[r][s].pc # "fetch"
              /\ reminders[r].status # "pending")
                 => /\ jobs'[r][s].state = "completed"
                    /\ jobs'[r][s].attemptsMade = jobs[r][s].attemptsMade
                    /\ reminders' = reminders
                    /\ hist'[r].sendOK = hist[r].sendOK
                    /\ hist'[r].outbound = hist[r].outbound
          /\ jobs[r][s].state = "completed"
                 => jobs'[r][s].state \in {"completed", "absent"}]_vars

\* the task of a deleted reminder was acknowledged without a send
C14_Witness ==
    \E r \in Rids, s \in Slots :
        /\ jobs[r][s].state = "completed"
        /\ hist[r].sendOK = 0
        /\ hist[r].fired = 1
        /\ jobs[r][s].attemptsMade = 0
        /\ reminders[r].status = "none"

\* C15: start() begins the first sweep itself, with the query of that moment
\* and before any interval period has elapsed; while the sweeper runs, the
\* sweeps begun are that first one plus one per elapsed interval period.
C15_FirstSweepAtStart ==
    /\ [][(scheduler.phase = "new" /\ scheduler'.phase = "running")
              => /\ scheduler'.begun = 1
                 /\ scheduler'.periods = 0
                 /\ sweep'.batch = findPendingReminders(now + OneHour)]_vars
    /\ [](scheduler.phase = "running"
              => scheduler.begun = scheduler.periods + 1)

\* the first sweep is in its loop and no interval period has elapsed
C15_Witness ==
    /\ scheduler.phase = "running"
    /\ scheduler.periods = 0
    /\ scheduler.begun = 1
    /\ sweep.pc = "loop"
    /\ Len(sweep.list) = 2

\* C16: an iteration of the sweep that fails or finds no owner only moves the
\* loop on to the next reminder; when the sweep is over, every reminder of
\* the batch whose own iteration did not fail has a job in the queue.
C16_SweepContinues ==
    /\ [][(sweep.pc = "loop" /\ sweep' # sweep)
              => /\ sweep'.list = Tail(sweep.list)
                 /\ sweep'.pc = IF Tail(sweep.list) = <<>> THEN "idle" ELSE "loop"
                 /\ sweep'.batch = sweep.batch]_vars
    /\ [](sweep.pc = "idle"
              => \A r \in sweep.batch \ sweep.skipped : HasJob(jobs, r))

\* the first reminder of a batch of two failed and the second one was scheduled
C16_Witness ==
    \E r \in Rids, q \in Rids :
        /\ sweep.pc = "idle"
        /\ sweep.batch = {r, q}
        /\ sweep.skipped = {r}
        /\ reminders[r].scheduledTime < reminders[q].scheduledTime
        /\ ~HasJob(jobs, r)
        /\ HasJob(jobs, q)

\* C17: a route call for a user who has not completed setup selects the
\* onboarding handler without an error, whatever the message and the stored
\* agent state, and leaves the agent state as it is.
C17_SetupFirst ==
    [][(routed.pc = "idle" /\ routed' # routed /\ ~user.onboardingComplete)
          => /\ routed'.agent = "onboarding"
             /\ ~routed'.error
             /\ routed'.pc = "idle"
             /\ agentState' = agentState]_vars

\* a user with an active flow who has not completed setup was routed
C17_Witness ==
    /\ ~user.onboardingComplete
    /\ routed.agent = "onboarding"
    /\ routed.flow = "split_expense"
    /\ agentState.currentAgent = "splitwise"

C19_MergeKeyByKey ==
    [][\A h \in Handlers :
          /\ (handler[h].pc = "idle" /\ handler'[h].pc = "updateWrite")
                 => /\ agentState.activeFlow # "none"
                    /\ \A k \in FlowKeys :
                          handler'[h].data[k] =
                              IF handler'[h].partial[k] # 0
                              THEN handler'[h].partial[k]
                              ELSE agentState.flowData[k]
          /\ (handler[h].pc = "updateWrite" /\ handler'[h].pc = "idle")
                 => /\ agentState'.flowData = handler[h].data
                    /\ agentState'.activeFlow = agentState.activeFlow
                    /\ agentState'.currentAgent = agentState.currentAgent]_vars

\* an update overrode a key and kept the other key of the flow data
C19_Witness ==
    /\ agentState.activeFlow # "none"
    /\ agentState.flowData["amount"] = 2
    /\ agentState.flowData["participantCount"] = 1
    /\ written = ExpenseKeys
    /\ \A h \in Handlers : handler[h].pc = "idle"

\* C20: whenever activeFlow is none, flowData is empty.
C20_NoDataWithoutFlow ==
    agentState.activeFlow = "none" => agentState.flowData = EmptyData

\* C21: whenever a flow is active the agent state row exists and names a
\* current agent; a startFlow call for a user without a row ends with an
\* error and never reaches its write.
C21_FlowHasAgent ==
    /\ [](agentState.activeFlow # "none"
              => (agentState.exists /\ agentState.currentAgent # "none"))
    /\ [][\A h \in Handlers :
             /\ (handler[h].pc = "idle" /\ handler'[h] # handler[h]
                  /\ handler'[h].pc = "startWrite") => agentState.exists
             /\ handler'[h].pc = "startWrite" => agentState'.exists]_vars

\* startFlow started a flow with initial data for a user whose agent is set
C21_Witness ==
    /\ agentState.activeFlow # "none"
    /\ agentState.flowData["amount"] = 1
    /\ written = {}
    /\ agentState.currentAgent \in Agents

\* C22: an updateFlowData call that finds no agent state row or no active
\* flow returns with a warning and without an error, never reaches its
\* write, and leaves the agent state as it is.
C22_UpdateWithoutFlow ==
    [][\A h \in Handlers :
          /\ (handler[h].pc = "idle" /\ handler'[h].pc = "updateWrite")
                 => (agentState.exists /\ agentState.activeFlow # "none")
          /\ (handler'[h].result = "warned" /\ handler'[h] # handler[h])
                 => /\ ~agentState.exists \/ agentState.activeFlow = "none"
                    /\ handler'[h].pc = "idle"
                    /\ agentState' = agentState]_vars

\* updateFlowData returned with its warning for a user without a row
C22_Witness ==
    \E h \in Handlers :
        /\ handler[h].result = "warned"
        /\ handler[h].pc = "idle"
        /\ ~agentState.exists

\* C23: a completeFlow call for a user with no active flow, or with no agent
\* state row, returns without an error and leaves the agent state as it is.
C23_CompleteWithoutFlow ==
    [][\A h \in Handlers :
          (/\ handler'[h] # handler[h]
           /\ handler'[h].result \in {"cleared", "notFound"}
           /\ ~agentState.exists \/ agentState.activeFlow = "none")
              => (handler'[h].result = "cleared" /\ agentState' = agentState)]_vars

\* the rows a read made when `at` rows were stored looked at: the last
\* Min(limit, at) of them, as positions of the log
Looked(at, limit) == (at - Min(limit, at) + 1)..at

\* C24: getContext returns the last Min(limit, n) messages of the user in the
\* order they were stored; lastIntent, lastActiveFlow and lastReminderId are
\* those of the latest of these messages that has the column, and undefined
\* when none has it.
C24_GetContext ==
    conv.ctx.op = "getContext" =>
        LET at == conv.ctx.at
            n == Min(conv.ctx.limit, at)
            res == conv.ctx.result
            Latest(column) ==
                IF \E i \in Looked(at, conv.ctx.limit) : conv.log[i][column] # "none"
                THEN conv.log[CHOOSE i \in Looked(at, conv.ctx.limit) :
                         /\ conv.log[i][column] # "none"
                         /\ \A j \in Looked(at, conv.ctx.limit) :
                               conv.log[j][column] # "none" => j <= i][column]
                ELSE "none"
        IN /\ Len(res.recentMessages) = n
           /\ \A i \in 1..n :
                 /\ res.recentMessages[i].messageText = at - n + i
                 /\ res.recentMessages[i].direction = conv.log[at - n + i].direction
                 /\ res.recentMessages[i].detectedIntent
                        = conv.log[at - n + i].detectedIntent
           /\ res.lastIntent = Latest("detectedIntent")
           /\ res.lastActiveFlow = Latest("activeFlow")
           /\ res.lastReminderId = Latest("relatedReminderId")

\* a read of fewer messages than are stored, whose latest message has no
\* intent while an earlier one of those read has
C24_Witness ==
    /\ conv.ctx.op = "getContext"
    /\ conv.ctx.limit = 2
    /\ conv.ctx.at = 3
    /\ conv.log[3].detectedIntent = "none"
    /\ conv.log[2].detectedIntent = "create_reminder"
    /\ conv.log[1].detectedIntent = "list_reminders"
    /\ conv.ctx.result.lastIntent = "create_reminder"
    /\ conv.ctx.result.lastReminderId = "r1"

\* C25: getActiveReminderContext looks at the last 5 messages: lastIntent is
\* the latest intent detected among them, hasActiveReminderFlow is true
\* exactly when that intent is create_reminder, and then partialReminderText
\* is the text of the latest inbound message among them.
C25_ActiveReminderContext ==
    conv.ctx.op = "getActiveReminderContext" =>
        LET at == conv.ctx.at
            res == conv.ctx.result
            Five == Looked(at, 5)
            WithIntent == {i \in Five : conv.log[i].detectedIntent # "none"}
            Inbound == {i \in Five : conv.log[i].direction = "inbound"}
            Last(S) == CHOOSE i \in S : \A j \in S : j <= i
            intent == IF WithIntent = {} THEN "none"
                      ELSE conv.log[Last(WithIntent)].detectedIntent
        IN /\ res.lastIntent = intent
           /\ res.hasActiveReminderFlow = (intent = "create_reminder")
           /\ res.hasActiveReminderFlow =>
                 res.partialReminderText =
                     IF Inbound = {} THEN 0 ELSE Last(Inbound)

\* six messages stored: the first, outside the last five, has another intent
\* and is inbound; two inbound ones are among the last five
C25_Witness ==
    /\ conv.ctx.op = "getActiveReminderContext"
    /\ conv.ctx.at = 6
    /\ conv.log[1].detectedIntent = "list_reminders"
    /\ \A i \in 2..6 : conv.log[i].detectedIntent \in {"none", "create_reminder"}
    /\ conv.log[3].direction = "inbound"
    /\ conv.log[5].direction = "inbound"
    /\ conv.log[6].direction = "outbound"
    /\ conv.ctx.result.hasActiveReminderFlow
    /\ conv.ctx.result.partialReminderText = 5

\* C26: a reminder for which the notifier accepted a send never has status
\* failed, whatever the outcome of the store writes after the send.
C26_AcceptedNeverFailed ==
    \A r \in Rids : hist[r].sendOK >= 1 => reminders[r].status # "failed"

\* C27: a job that enters the queue is due at its reminder's scheduledTime,
\* or at the instant of the call when that time is past (delay 0, never
\* negative); no job is handed to the worker, and no send is made, before
\* the scheduledTime of its reminder.
C27_NotBeforeScheduledTime ==
    /\ [][\A r \in Rids :
             (~HasJob(jobs, r) /\ HasJob(jobs', r))
                 => \E s \in Slots :
                       /\ jobs'[r][s].state = "delayed"
                       /\ jobs'[r][s].due >= now
                       /\ jobs'[r][s].due >= reminders[r].scheduledTime
                       /\ jobs'[r][s].due \in {now, reminders[r].scheduledTime}]_vars
    /\ [](\A r \in Rids, s \in Slots :
             jobs[r][s].state = "active" => now >= reminders[r].scheduledTime)

\* an overdue reminder was enqueued with delay 0 at this instant
C27_Witness ==
    \E r \in Rids, s \in Slots :
        /\ jobs[r][s].state = "delayed"
        /\ jobs[r][s].attemptsMade = 0
        /\ reminders[r].scheduledTime < now
        /\ jobs[r][s].due = now

\* C28: the batch of a sweep is the set of reminders that are pending and
\* due at or before now + 1 hour at the instant of its query; an iteration
\* calls schedule for the reminder it has taken from the batch, and only when
\* the owner exists; when the sweep is over every reminder of the batch whose
\* owner exists has been scheduled.
C28_SweepSelection ==
    /\ [][(sweep.pc = "idle" /\ sweep' # sweep)
              => /\ sweep'.batch = {r \in Rids :
                                       /\ reminders[r].status = "pending"
                                       /\ reminders[r].scheduledTime <= now + OneHour}
                 /\ sweep'.skipped = {}
                 /\ jobs' = jobs]_vars
    /\ [][\A r \in Rids :
             (jobs'[r] # jobs[r] \/ hist'[r].dedup # hist[r].dedup)
                 => /\ sweep.pc = "loop"
                    /\ r = Head(sweep.list)
                    /\ r \in sweep.batch
                    /\ reminders[r].userExists]_vars
    /\ [](sweep.pc = "idle"
              => \A r \in sweep.batch :
                    /\ r \in sweep.skipped <=> ~reminders[r].userExists
                    /\ reminders[r].userExists => HasJob(jobs, r))

\* a sweep scheduled the pending reminder and left out one that is cancelled
\* and due within the horizon
C28_Witness ==
    \E r \in Rids, q \in Rids :
        /\ sweep.pc = "idle"
        /\ sweep.batch = {r}
        /\ HasJob(jobs, r)
        /\ reminders[q].status = "cancelled"
        /\ reminders[q].userExists
        /\ reminders[q].scheduledTime <= OneHour
        /\ ~HasJob(jobs, q)

\* C29: once handleDeleteReminder has written the cancellation and its
\* cancelReminder call on the queue has returned, the reminder's status is
\* cancelled and no job of its id waits in the queue, whatever the sweeper
\* does meanwhile.
C29_CancelledAndDequeued ==
    \A r \in Rids :
        hist[r].cancelDone =>
            /\ reminders[r].status = "cancelled"
            /\ \A s \in Slots : jobs[r][s].state # "delayed"

\* C30: when a delivered status update arrives whose message id is the
\* whatsappMsgId of a reminder in status sent, the reminder's status becomes
\* delivered and deliveredAt is set.
C30_DeliveredOnConfirmation ==
    [][\A r \in Rids :
          (~hist[r].confirmed /\ hist'[r].confirmed) =>
              reminders'[r] = markAsDelivered(reminders[r])]_vars

\* C31: a job is attempted at most 3 times; an attempt that ends leaves the
\* job completed, failed after its third attempt, or delayed for a retry when
\* attempts are left, and never absent; every job that waits or runs ends
\* in the completed or the failed set.
C31_AttemptsBoundedAndTerminates ==
    /\ [](\A r \in Rids, s \in Slots :
            /\ jobs[r][s].attemptsMade <= Attempts
            /\ jobs[r][s].state \in {"delayed", "active"} =>
                   jobs[r][s].attemptsMade < Attempts)
    /\ [][\A r \in Rids, s \in Slots :
            (jobs[r][s].state = "active" /\ jobs'[r][s].state # "active") =>
                \/ jobs'[r][s].state = "completed"
                \/ /\ jobs'[r][s].state = "failed"
                   /\ jobs'[r][s].attemptsMade = Attempts
                \/ /\ jobs'[r][s].state = "delayed"
                   /\ jobs'[r][s].attemptsMade < Attempts]_vars
    /\ \A r \in Rids, s \in Slots :
          (jobs[r][s].state \in {"delayed", "active"})
              ~> (jobs[r][s].state \in {"completed", "failed"})

\* a job in the failed set after its third attempt
C31_Witness ==
    \E r \in Rids, s \in Slots :
        /\ jobs[r][s].state = "failed"
        /\ jobs[r][s].attemptsMade = Attempts

\* C35: a switchAgent call leaves the agent state row existing, with
\* currentAgent the new agent, activeFlow the flow passed or none when it is
\* omitted, and flowData empty, whether or not a row existed before.
C35_SwitchAgent ==
    [][\A h \in Handlers :
          (handler'[h].result = "switched" /\ handler'[h] # handler[h]) =>
              /\ agentState'.exists
              /\ agentState'.currentAgent = handler'[h].agent
              /\ agentState'.activeFlow = handler'[h].flow
              /\ agentState'.flowData = EmptyData]_vars

\* one handler has called switchAgent without a flow and another with a flow
C35_Witness ==
    /\ \E h \in Handlers : handler[h].result = "switched" /\ handler[h].flow = "none"
    /\ \E h \in Handlers : handler[h].result = "switched" /\ handler[h].flow # "none"
    /\ agentState.flowData = EmptyData
    /\ agentState.exists

\* the handling of the newest message of the payload has ended
MessageDone ==
    /\ webhook.texts # <<>>
    /\ webhook.pc \in {"message", "status", "idle"}

\* C32: after the first message of a user who has not completed setup and
\* has no agent state row, the greeting has been sent and the user's
\* activeFlow is onboarding, so that collectName takes the next message.
C32_FirstMessageStartsOnboarding ==
    (MessageDone /\ Len(webhook.texts) = 1) =>
        /\ webhook.greeted
        /\ agentState.activeFlow = "onboarding"

\* C33: a new user whose first message started onboarding, whose second
\* message is a valid name and who then sends a third message has
\* onboardingComplete set, the name stored, no active flow, and is routed to
\* the conversation agent from then on.
C33_OnboardingCompletes ==
    (/\ MessageDone
     /\ Len(webhook.texts) = 3
     /\ NameLength(firstName(webhook.texts[2])) >= 2
     /\ NameLength(firstName(webhook.texts[2])) <= 30) =>
        /\ user.onboardingComplete
        /\ user.name = NameValue(firstName(webhook.texts[2]))
        /\ agentState.activeFlow = "none"
        /\ \A m \in InboundTexts :
              route(user.onboardingComplete, agentState, m).agent = "conversation"

\* C36: every step of the webhook, the handlers and the worker leaves the
\* rows of the conversation log as they were and only adds rows after them;
\* the outbound rows of a reminder only grow in number.
C36_AppendOnly ==
    [][/\ Len(conv'.log) >= Len(conv.log)
       /\ SubSeq(conv'.log, 1, Len(conv.log)) = conv.log
       /\ \A r \in Rids : hist'[r].outbound >= hist[r].outbound]_vars

\* the log holds inbound rows and the outbound rows of a greeting, and the
\* worker has stored an outbound row
C36_Witness ==
    /\ Len(conv.log) >= 4
    /\ \E i \in 1..Len(conv.log) : conv.log[i].direction = "outbound"
    /\ \E r \in Rids : hist[r].outbound > 0

\* C37: an error raised while one inbound message is handled is caught: the
\* messages and status updates left in the payload stay to be processed,
\* and, unless the send of the error text itself failed, the user has been
\* sent the error text when the handling ends.
C37_ErrorCaughtAndReported ==
    /\ []((MessageDone /\ webhook.raised /\ ~webhook.sendFailed) => webhook.errorText)
    /\ [][(~webhook.raised /\ webhook'.raised) =>
             /\ webhook'.left = webhook.left
             /\ webhook'.statuses = webhook.statuses
             /\ webhook'.pc # "idle" \/ (webhook.left = 0 /\ webhook.statuses = 0)]_vars

\* the inbound rows of a log
InboundRows(log) == {i \in 1..Len(log) : log[i].direction = "inbound"}

\* C38: when the handling of a message has ended, the log holds one inbound
\* row for each inbound message received.
C38_OneRowPerMessage ==
    MessageDone =>
        /\ webhook.stored = 1
        /\ Cardinality(InboundRows(conv.log)) = Len(webhook.texts)

\* the reminders of userId that are pending and due after now
UpcomingOf(userId) ==
    {r \in Rids : /\ reminders[r].userId = userId
                  /\ reminders[r].status = "pending"
                  /\ reminders[r].scheduledTime > now}

C39_NoSweepAfterStop ==
    [][(scheduler.phase = "stopped" /\ scheduler'.phase = "stopped") =>
          scheduler'.begun = scheduler.begun]_vars

====
